---- MODULE Spec2Model ----
(***************************************************************************)
(* Abakion.FlowCaller (src/flowCaller.js): a command-bar helper that posts  *)
(* record identifiers to a webhook flow.  The module models the object's    *)
(* one field (_currentLanguage), the continuation chains of its entry       *)
(* points and the calls they make on the host (Xrm dialogs, progress        *)
(* indicator, Web API lookup, fetch, refreshes).                            *)
(*                                                                         *)
(* A JavaScript string is a sequence of pieces.  A piece is either one of   *)
(* the characters the code's patterns inspect ("{", "}", a digit) or a run  *)
(* of other characters kept whole.  Undefined stands for undefined/null.    *)
(***************************************************************************)
EXTENDS Integers, Sequences, FiniteSets, TLC

\* ------------------------------------------------------------------ bounds
MaxRows == 3        \* rows a grid shows (and can have selected)
MaxRefs == 2        \* length of an explicit selectedItemReferences list

\* ----------------------------------------------------------------- strings
Undefined == <<"<undefined>">>
EmptyStr  == <<>>

\* JavaScript truthiness of a string-or-undefined value.
Truthy(s) == s # Undefined /\ s # EmptyStr

\* a || b
Or2(a, b) == IF Truthy(a) THEN a ELSE b

DigitChars == <<"0", "1", "2", "3", "4", "5", "6", "7", "8", "9">>
IsDigit(c) == \E d \in 1..10 : DigitChars[d] = c
DigitVal(c) == (CHOOSE d \in 1..10 : DigitChars[d] = c) - 1

\* String(n) for a non-negative integer.
RECURSIVE NumStr(_)
NumStr(n) == IF n < 10 THEN <<DigitChars[n + 1]>>
             ELSE NumStr(n \div 10) \o <<DigitChars[(n % 10) + 1]>>

\* parseInt of a run of digit pieces (used as an array index).
RECURSIVE DigitsVal(_)
DigitsVal(ds) == IF ds = <<>> THEN 0
                 ELSE DigitsVal(SubSeq(ds, 1, Len(ds) - 1)) * 10 + DigitVal(ds[Len(ds)])

\* s.replace(/[{}]/g, ""): every brace removed.
StripFirstBraceOnly(s) ==
    IF \E i \in 1..Len(s) : s[i] \in {"{", "}"}
    THEN LET i == CHOOSE k \in 1..Len(s) :
                      s[k] \in {"{", "}"} /\ \A j \in 1..(k - 1) : s[j] \notin {"{", "}"}
         IN  SubSeq(s, 1, i - 1) \o SubSeq(s, i + 1, Len(s))
    ELSE s
StripBraces(s) == SelectSeq(s, LAMBDA c : c \notin {"{", "}"})

\* s.replace(pat, rep) with a string pattern: the first occurrence only.
Placeholder0 == <<"{", "0", "}">>
Occurs(s, pat, i) == i + Len(pat) - 1 <= Len(s) /\ SubSeq(s, i, i + Len(pat) - 1) = pat
ReplaceFirst(s, pat, rep) ==
    IF \E i \in 1..Len(s) : Occurs(s, pat, i)
    THEN LET i == CHOOSE k \in 1..Len(s) :
                      Occurs(s, pat, k) /\ \A j \in 1..(k - 1) : ~Occurs(s, pat, j)
         IN  SubSeq(s, 1, i - 1) \o rep \o SubSeq(s, i + Len(pat), Len(s))
    ELSE s

\* JavaScript values handed to _getString/_formatString as `values`.
JsUndef    == [t |-> "undefined", n |-> 0, s |-> <<>>, a |-> <<>>]
JsNum(k)   == [t |-> "number", n |-> k, s |-> <<>>, a |-> <<>>]
JsStr(str) == [t |-> "string", n |-> 0, s |-> str, a |-> <<>>]
JsArr(seq) == [t |-> "array", n |-> 0, s |-> <<>>, a |-> seq]   \* seq of strings or Undefined
JsTruthy(v) == CASE v.t = "undefined" -> FALSE
                 [] v.t = "number" -> v.n # 0
                 [] v.t = "string" -> v.s # <<>>
                 [] OTHER -> TRUE
ValuesArrayOnlyArrays(v) == IF v.t = "array" THEN v.a ELSE <<>>
\* The elements of `values` after `if (!Array.isArray(values)) values = [values]`,
\* each as the string the replacement yields.
ValuesArray(v) == CASE v.t = "array" -> v.a
                    [] v.t = "number" -> <<NumStr(v.n)>>
                    [] v.t = "string" -> <<v.s>>
                    [] OTHER -> <<>>

\* The end of a match of /\{(\d+)\}/ starting at i, or 0.
MatchEnd(t, i) ==
    IF i <= Len(t) /\ t[i] = "{" /\
       \E j \in (i + 2)..Len(t) : t[j] = "}" /\ \A k \in (i + 1)..(j - 1) : IsDigit(t[k])
    THEN CHOOSE j \in (i + 2)..Len(t) : t[j] = "}" /\ \A k \in (i + 1)..(j - 1) : IsDigit(t[k])
    ELSE 0

RECURSIVE FormatFrom(_, _, _)
FormatFrom(t, i, vals) ==
    IF i > Len(t) THEN <<>>
    ELSE LET e == MatchEnd(t, i) IN
         IF e = 0 THEN <<t[i]>> \o FormatFrom(t, i + 1, vals)
         ELSE LET digits == SubSeq(t, i + 1, e - 1)
                  index == DigitsVal(digits)
                  \* values[index] with the captured text as the property name:
                  \* only the decimal numeral of a position names an element,
                  \* and typeof values[index] !== 'undefined' asks for a value.
                  defined == /\ digits = NumStr(index)
                             /\ index + 1 <= Len(vals)
                             /\ vals[index + 1] # Undefined
              IN  (IF defined THEN vals[index + 1] ELSE SubSeq(t, i, e))
                  \o FormatFrom(t, e + 1, vals)

\* _formatString(template, values)
_formatString(template, values) == FormatFrom(template, 1, ValuesArray(values))

\* ------------------------------------------------------------ localization
Languages == {"en", "da", "de"}

LOCALIZED_STRINGS ==
    [en |-> [noRecordsSelected |-> <<"Please select at least one record.">>,
             envVarNotFound |-> <<"Environment variable not found: ", "{", "0", "}">>,
             envVarRetrievalFailed |-> <<"Environment variable retrieval failed: ", "{", "0", "}">>,
             processing |-> <<"Processing ", "{", "0", "}", " record(s)">>,
             completed |-> <<"Completed">>,
             defaultSuccessMessage |-> <<"{", "0", "}", " record(s) processed successfully">>,
             recordsFailed |-> <<"{", "0", "}", " record(s) failed">>,
             confirmTitle |-> <<"Confirm Action">>,
             flowUrlNotFound |-> <<"Flow URL not found: ", "{", "0", "}">>,
             flowExecutionFailed |-> <<"Flow execution failed for record ", "{", "0", "}", ": HTTP ", "{", "1", "}">>,
             networkError |-> <<"Network error for record ", "{", "0", "}">>,
             timelineRefreshWarning |-> <<"Timeline refresh failed">>,
             notSupported |-> <<"Not supported">>,
             onlySingleRecord |-> <<"This function only supports single records from form.">>,
             configurationError |-> <<"Configuration Error">>,
             success |-> <<"Success">>,
             error |-> <<"Error">>,
             errorWhenCallingFlow |-> <<"Error when calling flow: ", "{", "0", "}">>,
             errorWhenRetrievingVariable |-> <<"Error when retrieving environment variable: ", "{", "0", "}">>,
             flowCompletedSuccessfully |-> <<"Flow completed successfully!">>,
             flowStartedSuccessfully |-> <<"Flow started successfully!">>,
             sendingDataToFlow |-> <<"Sending data to flow...">>],
     da |-> [noRecordsSelected |-> <<"Vælg venligst mindst én post.">>,
             envVarNotFound |-> <<"Miljøvariabel ikke fundet: ", "{", "0", "}">>,
             envVarRetrievalFailed |-> <<"Fejl ved hentning af miljøvariabel: ", "{", "0", "}">>,
             processing |-> <<"Behandler ", "{", "0", "}", " post(er)">>,
             completed |-> <<"Fuldført">>,
             defaultSuccessMessage |-> <<"{", "0", "}", " post(er) behandlet succesfuldt">>,
             recordsFailed |-> <<"{", "0", "}", " post(er) fejlede">>,
             confirmTitle |-> <<"Bekræft handling">>,
             flowUrlNotFound |-> <<"Flow URL ikke fundet: ", "{", "0", "}">>,
             flowExecutionFailed |-> <<"Flow-udførelse fejlede for post ", "{", "0", "}", ": HTTP ", "{", "1", "}">>,
             networkError |-> <<"Netværksfejl for post ", "{", "0", "}">>,
             timelineRefreshWarning |-> <<"Tidslinje-opdatering fejlede">>,
             notSupported |-> <<"Ikke understøttet">>,
             onlySingleRecord |-> <<"Denne funktion understøtter kun enkelte poster fra formular.">>,
             configurationError |-> <<"Konfigurationsfejl">>,
             success |-> <<"Succes">>,
             error |-> <<"Fejl">>,
             errorWhenCallingFlow |-> <<"Fejl ved kald til flow: ", "{", "0", "}">>,
             errorWhenRetrievingVariable |-> <<"Fejl ved hentning af miljøvariabel: ", "{", "0", "}">>,
             flowCompletedSuccessfully |-> <<"Flow afsluttet succesfuldt!">>,
             flowStartedSuccessfully |-> <<"Flow startet succesfuldt!">>,
             sendingDataToFlow |-> <<"Sender data til flow...">>],
     de |-> [noRecordsSelected |-> <<"Bitte wählen Sie mindestens einen Datensatz aus.">>,
             envVarNotFound |-> <<"Umgebungsvariable nicht gefunden: ", "{", "0", "}">>,
             envVarRetrievalFailed |-> <<"Umgebungsvariable konnte nicht abgerufen werden: ", "{", "0", "}">>,
             processing |-> <<"Verarbeite ", "{", "0", "}", " Datensatz/Datensätze">>,
             completed |-> <<"Abgeschlossen">>,
             defaultSuccessMessage |-> <<"{", "0", "}", " Datensatz/Datensätze erfolgreich verarbeitet">>,
             recordsFailed |-> <<"{", "0", "}", " Datensatz/Datensätze fehlgeschlagen">>,
             confirmTitle |-> <<"Aktion bestätigen">>,
             flowUrlNotFound |-> <<"Flow-URL nicht gefunden: ", "{", "0", "}">>,
             flowExecutionFailed |-> <<"Flow-Ausführung für Datensatz ", "{", "0", "}", " fehlgeschlagen: HTTP ", "{", "1", "}">>,
             networkError |-> <<"Netzwerkfehler für Datensatz ", "{", "0", "}">>,
             timelineRefreshWarning |-> <<"Timeline-Aktualisierung fehlgeschlagen">>,
             notSupported |-> <<"Nicht unterstützt">>,
             onlySingleRecord |-> <<"Diese Funktion unterstützt nur einzelne Datensätze aus dem Formular.">>,
             configurationError |-> <<"Konfigurationsfehler">>,
             success |-> <<"Erfolg">>,
             error |-> <<"Fehler">>,
             errorWhenCallingFlow |-> <<"Fehler beim Aufrufen des Flows: ", "{", "0", "}">>,
             errorWhenRetrievingVariable |-> <<"Fehler beim Abrufen der Umgebungsvariable: ", "{", "0", "}">>,
             flowCompletedSuccessfully |-> <<"Flow erfolgreich abgeschlossen!">>,
             flowStartedSuccessfully |-> <<"Flow erfolgreich gestartet!">>,
             sendingDataToFlow |-> <<"Sende Daten an Flow...">>]]
setLanguageResultUnchecked(languageCode) == languageCode
\* The language setLanguage(languageCode) leaves current.
setLanguageResult(languageCode) ==
    IF languageCode \in DOMAIN LOCALIZED_STRINGS THEN languageCode ELSE "en"

\* _getString(key, values) under the language lang; `values` is formatted in
\* only when it is truthy.
_getString(lang, key, values) ==
    LET strings == IF lang \in DOMAIN LOCALIZED_STRINGS
                   THEN LOCALIZED_STRINGS[lang] ELSE LOCALIZED_STRINGS["en"]
        template == IF key \in DOMAIN strings THEN strings[key] ELSE <<key>>
    IN  IF JsTruthy(values) THEN _formatString(template, values) ELSE template

\* ------------------------------------------------------------------ inputs
\* A record reference as _processRecords reads it: the identifier under Id, id
\* or getId(), the type under TypeName, etn or entityType.  Undefined marks a
\* property the object does not have (for getId: not a function).
Ref(Id, id, getId, TypeName, etn, entityType) ==
    [Id |-> Id, id |-> id, getId |-> getId,
     TypeName |-> TypeName, etn |-> etn, entityType |-> entityType]

RefStd   == Ref(<<"{", "a", "}">>, Undefined, Undefined, <<"account">>, Undefined, Undefined)
RefAlt   == Ref(Undefined, <<"b">>, Undefined, Undefined, <<"contact">>, <<"lead">>)
RefGetId == Ref(Undefined, Undefined, <<"{", "c", "}">>, Undefined, Undefined, <<"lead">>)
\* an identifier of braces only, and no type under any alias
RefBlank == Ref(<<"{", "}">>, Undefined, Undefined, Undefined, Undefined, Undefined)
\* no identifier and no getId
RefBare  == Ref(Undefined, Undefined, Undefined, <<"contact">>, Undefined, Undefined)
RefShapes == {RefStd, RefAlt, RefGetId, RefBlank, RefBare}

SeqsUpTo(S, n) == UNION {[1..k -> S] : k \in 0..n}
RefLists == SeqsUpTo(RefShapes, MaxRefs)

\* The rows of a grid: one entity type, identifiers in the host's braced form.
GridEntity == <<"account">>
GridRow(i) == [id |-> <<"{", "r", DigitChars[i + 1], "}">>, type |-> GridEntity]

\* The rows of a selection S (a set of row numbers) in display order.
Selection(S) ==
    LET n == Cardinality(S)
        order == CHOOSE f \in [1..n -> S] : \A i, j \in 1..n : i < j => f[i] < f[j]
    IN  [k \in 1..n |-> GridRow(order[k])]
Selections == {Selection(S) : S \in SUBSET (1..MaxRows)}

\* primaryControl: getGrid is whether the control exposes getGrid, rows what
\* getGrid().getSelectedRows() holds, hasEntity whether data and data.entity
\* exist, entityId/entityType what data.entity.getId()/getEntityName() return.
Control(getGrid, rows, hasEntity, entityId, entityType) ==
    [getGrid |-> getGrid, rows |-> rows, hasEntity |-> hasEntity,
     entityId |-> entityId, entityType |-> entityType]

GridControl(rows) == Control(TRUE, rows, FALSE, Undefined, Undefined)
FormControl(id)   == Control(FALSE, <<>>, TRUE, id, <<"contact">>)
NoControl         == Control(FALSE, <<>>, FALSE, Undefined, Undefined)
\* a control exposing both capabilities
BothControl       == Control(TRUE, Selection({1}), TRUE, <<"{", "f", "}">>, <<"contact">>)

SavedForm   == FormControl(<<"{", "f", "}">>)
UnsavedForm == FormControl(EmptyStr)        \* getId() of a record not yet created

Controls == {GridControl(r) : r \in Selections}
            \cup {SavedForm, UnsavedForm, NoControl, BothControl}
ControlShapes == {GridControl(Selection({1})), SavedForm, NoControl}

EnvVarName      == <<"new_MyFlowUrl">>
DefaultEnvVar   == <<"aba_DefaultFlowUrl">>
ConfirmTexts    == {<<"Process ", "{", "0", "}", " selected record(s)?">>}
DefaultConfirm  == <<"Do you want to run this action?">>
SuccessMessages == {Undefined,
                    <<"Email(s) created">>,
                    <<"{", "0", "}", " opportunity(ies) updated">>}

Args(primaryControl, refs, envVarName, confirmationText, successMessage, refreshTimeline) ==
    [primaryControl |-> primaryControl, selectedItemReferences |-> refs,
     envVarName |-> envVarName, confirmationText |-> confirmationText,
     successMessage |-> successMessage, refreshTimeline |-> refreshTimeline,
     fieldNames |-> <<>>]

\* Arguments of callFlowWithConfirmation: every control with no explicit list
\* (null and [] take the same branch), and every explicit list with a control
\* of each shape.
ConfirmationArgs ==
    {Args(c, <<>>, EnvVarName, t, m, r) :
        c \in Controls, t \in ConfirmTexts, m \in SuccessMessages, r \in BOOLEAN}
    \cup
    {Args(c, l, EnvVarName, t, m, r) :
        c \in ControlShapes, l \in RefLists \ {<<>>}, t \in ConfirmTexts,
        m \in SuccessMessages, r \in BOOLEAN}

NoArgs == Args(NoControl, <<>>, EmptyStr, EmptyStr, Undefined, FALSE)

\* What the configuration store answers: result.entities, each entity with the
\* joined override value and the definition's default.
Url1 == <<"https://flow.example/1">>
Url2 == <<"https://flow.example/2">>
Entity(value, defaultvalue) == [value |-> value, defaultvalue |-> defaultvalue]
LookupResults ==
    {<<>>} \cup {<<Entity(v, d)>> : v \in {Undefined, EmptyStr, Url1},
                                  d \in {Undefined, EmptyStr, Url2}}
LookupErrors == {<<"Network request failed">>}

\* The host settings left open.
OpenHost == [hasXrm |-> FALSE, lcid |-> 0, browser |-> <<>>]

\* Invocations of callFlowWithConfirmation that may overlap on one page, and
\* the locals of the _processRecords call of each: none before it is called.
MaxInvocations == 2
MaxBatch == 2
Invocations == 1..MaxInvocations
NotCalled ==
    [phase |-> "none", n |-> 0, requests |-> <<>>, processedCount |-> 0,
     failedCount |-> 0, message |-> Undefined]
NoActivations == [k \in Invocations |-> NotCalled]

\* ------------------------------------------------------------------- state
VARIABLES
    _currentLanguage,   \* Abakion.FlowCaller._currentLanguage
    pc,                 \* where the invocation's continuation chain stands
    fn,                 \* the entry point that is running
    args,               \* its arguments
    selectedRecords,    \* callFlowWithConfirmation: the resolved batch
    entityName,         \* callFlowWithConfirmation: the resolved type name
    flowUrl,            \* the value the configuration lookup resolved with
    posts,              \* the POSTs issued, in order: [url, body]
    requests,           \* per POST: "pending", "ok", "status" or "network"
    joined,             \* _processRecords reached Promise.all(promises).then
    confirmed,          \* result.confirmed of the confirmation dialog, once resolved
    processedCount,     \* _processRecords: processedCount
    failedCount,        \* _processRecords: failedCount
    ui,                 \* the host calls of this invocation, in order
    fmtTemplate,        \* _formatString: the template of the call under study
    fmtValues,          \* _formatString: its values argument
    fmtResult,          \* _formatString: what the call returned, once it has
    host,               \* the page's host settings, or OpenHost: any, at each read
    activations         \* overlapping invocations: the locals of each _processRecords

formatVars == <<fmtTemplate, fmtValues, fmtResult>>

vars == <<_currentLanguage, pc, fn, args, selectedRecords, entityName, flowUrl,
          posts, requests, joined, confirmed, processedCount, failedCount, ui,
          fmtTemplate, fmtValues, fmtResult, host, activations>>

UI(op, text, title) == [op |-> op, text |-> text, title |-> title]
Alert(text, title)  == UI("openAlertDialog", text, title)
NoTitle == Undefined

Init ==
    /\ _currentLanguage = "en"
    /\ pc = "idle"
    /\ fn = "none"
    /\ args = NoArgs
    /\ selectedRecords = <<>>
    /\ entityName = EmptyStr
    /\ flowUrl = Undefined
    /\ posts = <<>>
    /\ requests = <<>>
    /\ joined = FALSE
    /\ confirmed = "unresolved"
    /\ processedCount = 0
    /\ failedCount = 0
    /\ ui = <<>>
    /\ fmtTemplate = EmptyStr
    /\ fmtValues = JsUndef
    /\ fmtResult = Undefined
    /\ host = OpenHost
    /\ activations = NoActivations

\* ---------------------------------------------------------------- language
\* Host settings initializeLanguage reads: whether Xrm.Utility.getGlobalContext
\* exists, the user's LCID, and navigator.language.
HostSettings == [hasXrm : BOOLEAN, lcid : {1033, 1030, 1031, 1036, 1043},
                 browser : {<<"en", "-US">>, <<"da", "-DK">>, <<"nl">>}]

\* The settings a read of the host can find: any of HostSettings while host
\* is left open, those of the one page otherwise.
Hosts == IF host = OpenHost THEN HostSettings ELSE {host}

lcidMap(lcid) == CASE lcid = 1033 -> "en"
                   [] lcid = 1030 -> "da"
                   [] lcid = 1031 -> "de"
                   [] lcid = 1036 -> "fr"
                   [] lcid = 1034 -> "es"
                   [] OTHER -> ""

\* The language initializeLanguage() leaves current under host settings h.
initializeLanguageResult(h) ==
    IF h.hasXrm /\ lcidMap(h.lcid) # ""
    THEN setLanguageResult(lcidMap(h.lcid))
    ELSE setLanguageResult(h.browser[1])     \* substring(0, 2)

\* The language is chosen while no invocation is under way (page load, caller
\* configuration).
setLanguage(languageCode) ==
    /\ pc = "idle"
    /\ _currentLanguage' = setLanguageResult(languageCode)
    /\ UNCHANGED <<pc, fn, args, selectedRecords, entityName, flowUrl, posts,
                   requests, joined, confirmed, processedCount, failedCount, ui>>
    /\ UNCHANGED <<formatVars, host, activations>>

initializeLanguage(h) ==
    /\ pc = "idle"
    /\ _currentLanguage' = initializeLanguageResult(h)
    /\ UNCHANGED <<pc, fn, args, selectedRecords, entityName, flowUrl, posts,
                   requests, joined, confirmed, processedCount, failedCount, ui>>
    /\ UNCHANGED <<formatVars, host, activations>>

\* `if (!self._currentLanguage) self.initializeLanguage()` at the head of both
\* entry points.
LanguageOnEntry ==
    IF _currentLanguage = ""
    THEN \E h \in Hosts : _currentLanguage' = initializeLanguageResult(h)
    ELSE UNCHANGED _currentLanguage

\* -------------------------------------------------------- context resolver
\* a.TypeName || a.etn || a.entityType
TypeNameOfReversed(ref) == Or2(ref.entityType, Or2(ref.etn, ref.TypeName))
TypeNameOf(ref) == Or2(ref.TypeName, Or2(ref.etn, ref.entityType))

Resolved(branch, abort, records, type) ==
    [branch |-> branch, abort |-> abort, selectedRecords |-> records, entityName |-> type]

RowRecords(rows) ==
    [i \in 1..Len(rows) |->
        Ref(rows[i].id, Undefined, Undefined, rows[i].type, Undefined, Undefined)]

FormRecord(c) ==
    Ref(StripBraces(c.entityId), Undefined, Undefined, c.entityType, Undefined, Undefined)
ResolveContextNoAbort(primaryControl, refs) ==
    IF Len(refs) > 0
    THEN Resolved("references", FALSE, refs, TypeNameOf(refs[1]))
    ELSE IF primaryControl.getGrid
    THEN Resolved("grid", FALSE, RowRecords(primaryControl.rows),
                  IF Len(primaryControl.rows) = 0 THEN EmptyStr
                  ELSE primaryControl.rows[1].type)
    ELSE IF primaryControl.hasEntity
    THEN Resolved("form", FALSE, <<FormRecord(primaryControl)>>, primaryControl.entityType)
    ELSE Resolved("none", FALSE, <<>>, EmptyStr)

ResolveContextGridFirst(primaryControl, refs) ==
    IF primaryControl.getGrid
    THEN IF Len(primaryControl.rows) = 0
         THEN Resolved("grid", TRUE, <<>>, EmptyStr)
         ELSE Resolved("grid", FALSE, RowRecords(primaryControl.rows),
                       primaryControl.rows[1].type)
    ELSE IF Len(refs) > 0
    THEN Resolved("references", FALSE, refs, TypeNameOf(refs[1]))
    ELSE IF primaryControl.hasEntity
    THEN Resolved("form", FALSE, <<FormRecord(primaryControl)>>, primaryControl.entityType)
    ELSE Resolved("none", TRUE, <<>>, EmptyStr)

\* The if / else-if chain of callFlowWithConfirmation, and the final
\* `selectedRecords.length === 0` check.
ResolveContext(primaryControl, refs) ==
    LET r == IF Len(refs) > 0
             THEN Resolved("references", FALSE, refs, TypeNameOf(refs[1]))
             ELSE IF primaryControl.getGrid
             THEN IF Len(primaryControl.rows) = 0
                  THEN Resolved("grid", TRUE, <<>>, EmptyStr)
                  ELSE Resolved("grid", FALSE, RowRecords(primaryControl.rows),
                                primaryControl.rows[1].type)
             ELSE IF primaryControl.hasEntity
             THEN Resolved("form", FALSE, <<FormRecord(primaryControl)>>,
                           primaryControl.entityType)
             ELSE Resolved("none", TRUE, <<>>, EmptyStr)
    IN  IF Len(r.selectedRecords) = 0 THEN [r EXCEPT !.abort = TRUE] ELSE r

\* confirmationText.replace("{0}", selectedRecords.length)
ConfirmText(confirmationText, n) == ReplaceFirst(confirmationText, Placeholder0, NumStr(n))

ConfirmDialog(text) ==
    UI("openConfirmDialog", text, _getString(_currentLanguage', "confirmTitle", JsUndef))

callFlowWithConfirmation(a) ==
    /\ pc = "idle"
    /\ LanguageOnEntry
    /\ fn' = "callFlowWithConfirmation"
    /\ args' = a
    /\ LET r == ResolveContext(a.primaryControl, a.selectedItemReferences) IN
       /\ selectedRecords' = r.selectedRecords
       /\ entityName' = r.entityName
       /\ IF r.abort
          THEN /\ ui' = <<Alert(_getString(_currentLanguage', "noRecordsSelected", JsUndef),
                                NoTitle)>>
               /\ pc' = "done"
          ELSE /\ ui' = <<ConfirmDialog(ConfirmText(a.confirmationText,
                                                    Len(r.selectedRecords)))>>
               /\ pc' = "confirm"
    /\ flowUrl' = Undefined
    /\ posts' = <<>>
    /\ requests' = <<>>
    /\ joined' = FALSE
    /\ confirmed' = "unresolved"
    /\ processedCount' = 0
    /\ failedCount' = 0
    /\ UNCHANGED <<formatVars, host, activations>>

\* callFlow(primaryControl)
callFlowWithTimeline(c) ==
    callFlowWithConfirmation(Args(c, <<>>, DefaultEnvVar, DefaultConfirm, Undefined, TRUE))
callFlow(c) ==
    callFlowWithConfirmation(Args(c, <<>>, DefaultEnvVar, DefaultConfirm, Undefined, FALSE))

\* --------------------------------------------------------- confirmation gate
\* Xrm.Navigation.openConfirmDialog(...).then(function(result) { ... })
ConfirmDialogProceeds(result) ==
    /\ pc = "confirm"
    /\ confirmed' = IF result THEN "yes" ELSE "no"
    /\ ui' = Append(ui, UI("retrieveMultipleRecords", args.envVarName, NoTitle))
    /\ pc' = "lookup"
    /\ UNCHANGED <<_currentLanguage, fn, args, selectedRecords, entityName, flowUrl,
                   posts, requests, joined, processedCount, failedCount>>
    /\ UNCHANGED <<formatVars, host, activations>>

ConfirmDialogResolves(result) ==
    /\ pc = "confirm"
    /\ confirmed' = IF result THEN "yes" ELSE "no"
    /\ IF result
       THEN /\ ui' = Append(ui, UI("retrieveMultipleRecords", args.envVarName, NoTitle))
            /\ pc' = "lookup"
       ELSE /\ ui' = ui
            /\ pc' = "done"
    /\ UNCHANGED <<_currentLanguage, fn, args, selectedRecords, entityName, flowUrl,
                   posts, requests, joined, processedCount, failedCount>>
    /\ UNCHANGED <<formatVars, host, activations>>

\* The dialog's promise rejects (the host's errorCallback): neither entry point
\* chains a catch on openConfirmDialog(...).then(...), so the rejection is left
\* to the host as an unhandled rejection.
ConfirmDialogRejects ==
    /\ pc = "confirm"
    /\ ui' = Append(ui, UI("unhandledRejection", <<"openConfirmDialog">>, NoTitle))
    /\ pc' = "done"
    /\ UNCHANGED <<_currentLanguage, fn, args, selectedRecords, entityName, flowUrl,
                   posts, requests, joined, confirmed, processedCount, failedCount>>
    /\ UNCHANGED <<formatVars, host, activations>>

\* ------------------------------------------------------ configuration lookup
NotFoundMessage(variableName) == <<"Environment variable not found: ">> \o variableName

\* _getEnvironmentVariable's then-callback: the value it resolves with, or
\* Rejected(message).
Rejected(message) == [ok |-> FALSE, value |-> Undefined, message |-> message]
ResolvedWith(value) == [ok |-> TRUE, value |-> value, message |-> EmptyStr]

EnvironmentVariableFirstCallWins(variableName, entities) == ResolvedWith(Url1)

EnvironmentVariableDefaultFirst(variableName, entities) ==
    IF Len(entities) > 0
    THEN ResolvedWith(Or2(entities[1].defaultvalue, entities[1].value))
    ELSE Rejected(NotFoundMessage(variableName))

_getEnvironmentVariable(variableName, entities) ==
    IF Len(entities) > 0
    THEN ResolvedWith(Or2(entities[1].value, entities[1].defaultvalue))
    ELSE Rejected(NotFoundMessage(variableName))

\* ----------------------------------------------------------- batch dispatch
\* record.Id || record.id || record.getId() throws when neither Id nor id is
\* truthy and the record has no getId.
BuildThrows(record) ==
    ~Truthy(record.Id) /\ ~Truthy(record.id) /\ record.getId = Undefined
TypeErrorMessage == <<"record.getId is not a function">>

RawId(record) == Or2(record.Id, Or2(record.id, record.getId))

\* if (recordId) recordId = recordId.toString().replace(/[{}]/g, "")
PayloadId(record) ==
    LET recordId == RawId(record) IN
    IF Truthy(recordId) THEN StripBraces(recordId) ELSE recordId

\* JSON.stringify(payload): a property whose value is undefined is left out.
Stringify(payload) ==
    [k \in {x \in DOMAIN payload : payload[x] # Undefined} |-> payload[k]]

Field(body, k) == IF k \in DOMAIN body THEN body[k] ELSE Undefined

Payload(record, type) ==
    [id |-> PayloadId(record), entityName |-> type]

Post(url, payload) == [url |-> url, body |-> Stringify(payload)]

\* The records selectedRecords.map reaches before a callback throws.
Issued(records) ==
    IF \E i \in 1..Len(records) : BuildThrows(records[i])
    THEN (CHOOSE i \in 1..Len(records) :
              BuildThrows(records[i]) /\ \A j \in 1..(i - 1) : ~BuildThrows(records[j])) - 1
    ELSE Len(records)

\* _processRecords up to Promise.all(promises).then(...), run inside the
\* lookup's then-callback; an exception of the map is caught by the lookup
\* chain's catch.
_processRecords(url) ==
    LET total == Len(selectedRecords)
        n     == Issued(selectedRecords)
        show  == UI("showProgressIndicator",
                    _getString(_currentLanguage, "processing", JsNum(total)), NoTitle)
        sent  == [i \in 1..n |-> Post(url, Payload(selectedRecords[i], entityName))]
        calls == [i \in 1..n |-> UI("fetch", url, NoTitle)]
    IN  /\ posts' = sent
        /\ requests' = [i \in 1..n |-> "pending"]
        /\ processedCount' = 0
        /\ failedCount' = 0
        /\ IF n < total
           THEN /\ joined' = FALSE
                /\ ui' = ui \o <<show>> \o calls \o
                         <<Alert(_getString(_currentLanguage, "envVarRetrievalFailed",
                                            JsStr(TypeErrorMessage)), NoTitle)>>
                /\ pc' = IF n = 0 THEN "done" ELSE "dispatch"
           ELSE /\ joined' = TRUE
                /\ ui' = ui \o <<show>> \o calls
                /\ pc' = "dispatch"

\* The lookup's promise settles: resolve(value) or reject(error), and the
\* callbacks callFlowWithConfirmation chained on it.
LookupSettles(result) ==
    /\ pc = "lookup"
    /\ fn = "callFlowWithConfirmation"
    /\ IF ~result.ok
       THEN /\ ui' = Append(ui, Alert(_getString(_currentLanguage, "envVarRetrievalFailed",
                                                 JsStr(result.message)), NoTitle))
            /\ pc' = "done"
            /\ UNCHANGED <<flowUrl, posts, requests, joined, processedCount, failedCount>>
       ELSE /\ flowUrl' = result.value
            /\ IF ~Truthy(result.value)
               THEN /\ ui' = Append(ui, Alert(_getString(_currentLanguage, "envVarNotFound",
                                                         JsStr(args.envVarName)), NoTitle))
                    /\ pc' = "done"
                    /\ UNCHANGED <<posts, requests, joined, processedCount, failedCount>>
               ELSE _processRecords(result.value)
    /\ UNCHANGED <<_currentLanguage, fn, args, selectedRecords, entityName, confirmed>>
    /\ UNCHANGED <<formatVars, host, activations>>

LookupResolves(entities) ==
    LookupSettles(_getEnvironmentVariable(args.envVarName, entities))

\* retrieveMultipleRecords rejects: .catch(function(error) { reject(error) })
LookupRejects(message) == LookupSettles(Rejected(message))

CountFromStaleRead(outcome) ==
    /\ processedCount' = IF outcome = "ok" THEN 1 ELSE processedCount
    /\ failedCount' = IF outcome \in {"status", "network"} THEN 1 ELSE failedCount
\* One request's chain settles: fetch(...).then(response => ...).catch(...)
CountOkOnly(outcome) ==
    /\ processedCount' = IF outcome = "ok" THEN processedCount + 1 ELSE processedCount
    /\ failedCount' = IF outcome = "status" THEN failedCount + 1 ELSE failedCount
CountStatusAsProcessed(outcome) ==
    /\ processedCount' = IF outcome \in {"ok", "status"} THEN processedCount + 1
                         ELSE processedCount
    /\ failedCount' = IF outcome = "network" THEN failedCount + 1 ELSE failedCount
Count(outcome) ==
    /\ processedCount' = IF outcome = "ok" THEN processedCount + 1 ELSE processedCount
    /\ failedCount' = IF outcome \in {"status", "network"} THEN failedCount + 1
                      ELSE failedCount

RequestSettles(i, outcome) ==
    /\ pc = "dispatch"
    /\ i \in DOMAIN requests
    /\ requests[i] = "pending"
    /\ requests' = [requests EXCEPT ![i] = outcome]
    /\ Count(outcome)
    /\ pc' = IF ~joined /\ \A j \in DOMAIN requests : requests'[j] # "pending"
             THEN "done" ELSE pc
    /\ UNCHANGED <<_currentLanguage, fn, args, selectedRecords, entityName, flowUrl,
                   posts, joined, confirmed, ui>>
    /\ UNCHANGED <<formatVars, host, activations>>

\* The summary text built in Promise.all(promises).then.
SummaryMessage(lang, successMessage, processed, failed) ==
    LET message == IF Truthy(successMessage)
                   THEN ReplaceFirst(successMessage, Placeholder0, NumStr(processed))
                   ELSE _getString(lang, "defaultSuccessMessage", JsNum(processed))
    IN  IF failed > 0
        THEN message \o <<"\n">> \o _getString(lang, "recordsFailed", JsNum(failed))
        ELSE message

AllSettled == \A i \in DOMAIN requests : requests[i] # "pending"

\* What Promise.all(promises) waits for: every chain of the batch.
BarrierAnySettled == \E i \in DOMAIN requests : requests[i] # "pending"
Barrier == AllSettled

\* Promise.all(promises).then(function() { ... })
PromiseAllThen ==
    /\ pc = "dispatch"
    /\ joined
    /\ Barrier
    /\ ui' = ui \o <<UI("closeProgressIndicator", EmptyStr, NoTitle),
                     Alert(SummaryMessage(_currentLanguage, args.successMessage,
                                          processedCount, failedCount),
                           _getString(_currentLanguage, "completed", JsUndef))>>
    /\ pc' = "summary"
    /\ UNCHANGED <<_currentLanguage, fn, args, selectedRecords, entityName, flowUrl,
                   posts, requests, joined, confirmed, processedCount, failedCount>>
    /\ UNCHANGED <<formatVars, host, activations>>

\* The summary dialog is acknowledged: the timeline and grid/form refresh.
\* timeline is what the attempt to refresh the Timeline control does.
TimelineOutcomes == {"refreshed", "absent", "throws"}

SummaryAcknowledged(timeline) ==
    /\ pc = "summary"
    /\ LET c == args.primaryControl
           isFormContext == ~c.getGrid
           get == UI("getControl", <<"Timeline">>, NoTitle)
           tl == IF isFormContext /\ args.refreshTimeline
                 THEN CASE timeline = "refreshed" ->
                             <<get, UI("Timeline.refresh", EmptyStr, NoTitle)>>
                        [] timeline = "throws" ->
                             <<get,
                               UI("console.warn",
                                  _getString(_currentLanguage, "timelineRefreshWarning", JsUndef),
                                  NoTitle)>>
                        [] OTHER -> <<get>>
                 ELSE <<>>
           refresh == IF c.getGrid THEN UI("grid.refresh", EmptyStr, NoTitle)
                      ELSE IF c.hasEntity THEN UI("data.refresh", EmptyStr, NoTitle)
                      ELSE UI("unhandledRejection", <<"TypeError">>, NoTitle)
       IN  /\ (isFormContext /\ args.refreshTimeline) \/ timeline = "absent"
           /\ ui' = ui \o tl \o <<refresh>>
    /\ pc' = "done"
    /\ UNCHANGED <<_currentLanguage, fn, args, selectedRecords, entityName, flowUrl,
                   posts, requests, joined, confirmed, processedCount, failedCount>>
    /\ UNCHANGED <<formatVars, host, activations>>

\* ------------------------------------------------ callFlowWithCustomFields
\* The attributes of the form (formContext.getAttribute(name).getValue()).
JsNull == <<"<null>">>
FormAttributes == [name |-> <<"Contoso">>, id |-> <<"ACC-7">>, fax |-> JsNull]
FieldNameLists == {<<>>, <<"name">>, <<"name", "missing">>, <<"id">>, <<"fax", "name">>}

CustomFieldsArgs ==
    {[Args(c, <<>>, EnvVarName, t, Undefined, FALSE) EXCEPT !.fieldNames = f] :
        c \in {SavedForm, UnsavedForm, NoControl, GridControl(Selection({1}))},
        t \in ConfirmTexts, f \in FieldNameLists}

\* payload[fieldName] = attribute.getValue() for each name that has an attribute
RECURSIVE AddFields(_, _)
AddFields(payload, fieldNames) ==
    IF fieldNames = <<>> THEN payload
    ELSE LET fieldName == Head(fieldNames)
             next == IF fieldName \in DOMAIN FormAttributes
                     THEN (fieldName :> FormAttributes[fieldName]) @@ payload
                     ELSE payload
         IN  AddFields(next, Tail(fieldNames))
CustomPayloadFirstFieldOnly(c, fieldNames) ==
    AddFields([id |-> StripBraces(c.entityId), entityName |-> c.entityType],
              IF fieldNames = <<>> THEN <<>> ELSE <<Head(fieldNames)>>)

CustomPayload(c, fieldNames) ==
    AddFields([id |-> StripBraces(c.entityId), entityName |-> c.entityType], fieldNames)

\* `if (primaryControl.getGrid)`: the validation at the head of
\* callFlowWithCustomFields.
OnlyFormContextWhenNothingSelected(primaryControl) ==
    primaryControl.getGrid /\ Len(primaryControl.rows) = 0
OnlyFormContext(primaryControl) == primaryControl.getGrid

callFlowWithCustomFields(a) ==
    /\ pc = "idle"
    /\ LanguageOnEntry
    /\ fn' = "callFlowWithCustomFields"
    /\ args' = a
    /\ IF OnlyFormContext(a.primaryControl)
       THEN /\ ui' = <<Alert(_getString(_currentLanguage', "onlySingleRecord", JsUndef),
                             _getString(_currentLanguage', "notSupported", JsUndef))>>
            /\ pc' = "done"
       ELSE IF ~a.primaryControl.hasEntity
       THEN \* formContext.data.entity of a control without data throws to the caller
            /\ ui' = <<UI("throw", <<"TypeError">>, NoTitle)>>
            /\ pc' = "done"
       ELSE /\ ui' = <<ConfirmDialog(ReplaceFirst(a.confirmationText, Placeholder0, <<"1">>))>>
            /\ pc' = "confirm"
    /\ selectedRecords' = <<>>
    /\ entityName' = EmptyStr
    /\ flowUrl' = Undefined
    /\ posts' = <<>>
    /\ requests' = <<>>
    /\ joined' = FALSE
    /\ confirmed' = "unresolved"
    /\ processedCount' = 0
    /\ failedCount' = 0
    /\ UNCHANGED <<formatVars, host, activations>>

CustomLookupSettles(result) ==
    /\ pc = "lookup"
    /\ fn = "callFlowWithCustomFields"
    /\ IF ~result.ok
       THEN /\ ui' = Append(ui, Alert(_getString(_currentLanguage, "errorWhenRetrievingVariable",
                                                 JsStr(result.message)),
                                      _getString(_currentLanguage, "error", JsUndef)))
            /\ pc' = "done"
            /\ UNCHANGED <<flowUrl, posts, requests>>
       ELSE /\ flowUrl' = result.value
            /\ IF ~Truthy(result.value)
               THEN /\ ui' = Append(ui, Alert(_getString(_currentLanguage, "flowUrlNotFound",
                                                         JsStr(args.envVarName)),
                                              _getString(_currentLanguage, "configurationError",
                                                         JsUndef)))
                    /\ pc' = "done"
                    /\ UNCHANGED <<posts, requests>>
               ELSE /\ posts' = <<Post(result.value,
                                       CustomPayload(args.primaryControl, args.fieldNames))>>
                    /\ requests' = <<"pending">>
                    /\ ui' = ui \o <<UI("showProgressIndicator",
                                        _getString(_currentLanguage, "sendingDataToFlow", JsUndef),
                                        NoTitle),
                                     UI("fetch", result.value, NoTitle)>>
                    /\ pc' = "customFetch"
    /\ UNCHANGED <<_currentLanguage, fn, args, selectedRecords, entityName, joined, confirmed,
                   processedCount, failedCount>>
    /\ UNCHANGED <<formatVars, host, activations>>

CustomLookupResolves(entities) ==
    CustomLookupSettles(_getEnvironmentVariable(args.envVarName, entities))

CustomLookupRejects(message) == CustomLookupSettles(Rejected(message))

\* The fetch settles.  outcome: "json" (success status, body parses), "nojson"
\* (success status, response.json() rejects), "status", "network".
CustomOutcomes == {"json", "nojson", "status", "network"}
HttpStatusMessage == <<"HTTP ">> \o NumStr(500)
TransportMessage == <<"Failed to fetch">>
CustomResponseIgnoresStatus(outcome) ==
    /\ pc = "customFetch"
    /\ requests' = <<IF outcome \in {"json", "nojson"} THEN "ok" ELSE outcome>>
    /\ LET close == UI("closeProgressIndicator", EmptyStr, NoTitle)
           key == IF outcome = "json" THEN "flowCompletedSuccessfully"
                  ELSE "flowStartedSuccessfully"
       IN  /\ ui' = ui \o <<close,
                            Alert(_getString(_currentLanguage, key, JsUndef),
                                  _getString(_currentLanguage, "success", JsUndef))>>
           /\ pc' = IF outcome = "json" THEN "customResult" ELSE "done"
    /\ UNCHANGED <<_currentLanguage, fn, args, selectedRecords, entityName, flowUrl,
                   posts, joined, confirmed, processedCount, failedCount>>
    /\ UNCHANGED <<formatVars, host, activations>>

CustomResponse(outcome) ==
    /\ pc = "customFetch"
    /\ requests' = <<IF outcome \in {"json", "nojson"} THEN "ok" ELSE outcome>>
    /\ LET close == UI("closeProgressIndicator", EmptyStr, NoTitle)
           failed(message) ==
               <<close,
                 Alert(_getString(_currentLanguage, "errorWhenCallingFlow", JsStr(message)),
                       _getString(_currentLanguage, "error", JsUndef)),
                 UI("console.error", message, NoTitle)>>
       IN  CASE outcome = "json" ->
                  /\ ui' = ui \o <<close,
                                   Alert(_getString(_currentLanguage, "flowCompletedSuccessfully",
                                                    JsUndef),
                                         _getString(_currentLanguage, "success", JsUndef))>>
                  /\ pc' = "customResult"
             [] outcome = "nojson" ->
                  /\ ui' = ui \o <<close,
                                   Alert(_getString(_currentLanguage, "flowStartedSuccessfully",
                                                    JsUndef),
                                         _getString(_currentLanguage, "success", JsUndef))>>
                  /\ pc' = "done"
             [] outcome = "status" ->
                  /\ ui' = ui \o <<close>> \o failed(HttpStatusMessage)
                  /\ pc' = "done"
             [] OTHER ->
                  /\ ui' = ui \o failed(TransportMessage)
                  /\ pc' = "done"
    /\ UNCHANGED <<_currentLanguage, fn, args, selectedRecords, entityName, flowUrl,
                   posts, joined, confirmed, processedCount, failedCount>>
    /\ UNCHANGED <<formatVars, host, activations>>

\* .then(function() { formContext.data.refresh(false) }) of the result dialog
CustomResultAcknowledged ==
    /\ pc = "customResult"
    /\ ui' = Append(ui, UI("data.refresh", EmptyStr, NoTitle))
    /\ pc' = "done"
    /\ UNCHANGED <<_currentLanguage, fn, args, selectedRecords, entityName, flowUrl,
                   posts, requests, joined, confirmed, processedCount, failedCount>>
    /\ UNCHANGED <<formatVars, host, activations>>

\* The chain has ended; its locals are dropped and the page waits for the next
\* command.
Return ==
    /\ pc = "done"
    /\ pc' = "idle"
    /\ fn' = "none"
    /\ args' = NoArgs
    /\ selectedRecords' = <<>>
    /\ entityName' = EmptyStr
    /\ flowUrl' = Undefined
    /\ posts' = <<>>
    /\ requests' = <<>>
    /\ joined' = FALSE
    /\ confirmed' = "unresolved"
    /\ processedCount' = 0
    /\ failedCount' = 0
    /\ ui' = <<>>
    /\ UNCHANGED _currentLanguage
    /\ UNCHANGED <<formatVars, host, activations>>

\* ------------------------------------------------------------ specification
Outcomes == {"ok", "status", "network"}
LanguageCodes == {"en", "da", "de", "fr"}

Next ==
    \/ \E c \in LanguageCodes : setLanguage(c)
    \/ \E h \in Hosts : initializeLanguage(h)
    \/ pc = "idle" /\ \E a \in ConfirmationArgs : callFlowWithConfirmation(a)
    \/ pc = "idle" /\ \E c \in Controls : callFlow(c)
    \/ pc = "idle" /\ \E a \in CustomFieldsArgs : callFlowWithCustomFields(a)
    \/ \E r \in BOOLEAN : ConfirmDialogResolves(r)
    \/ ConfirmDialogRejects
    \/ \E e \in LookupResults : LookupResolves(e)
    \/ \E m \in LookupErrors : LookupRejects(m)
    \/ \E i \in 1..(MaxRows + MaxRefs), o \in Outcomes : RequestSettles(i, o)
    \/ PromiseAllThen
    \/ \E t \in TimelineOutcomes : SummaryAcknowledged(t)
    \/ \E e \in LookupResults : CustomLookupResolves(e)
    \/ \E m \in LookupErrors : CustomLookupRejects(m)
    \/ \E o \in CustomOutcomes : CustomResponse(o)
    \/ CustomResultAcknowledged
    \/ Return

Spec == Init /\ [][Next]_vars

\* Every POST eventually settles (the premise of the completion claims), and a
\* callback whose promise has settled is eventually run by the event loop.
Fairness ==
    /\ WF_vars(\E i \in 1..(MaxRows + MaxRefs), o \in Outcomes : RequestSettles(i, o))
    /\ WF_vars(PromiseAllThen)

FairSpec == Spec /\ Fairness

\* ------------------------------------------------- one page, language never set
\* A third specification: the page has its host settings, and the caller
\* invokes the entry points without ever calling setLanguage or
\* initializeLanguage itself.
UnsetConfirmationArgs ==
    {Args(c, <<>>, EnvVarName, DefaultConfirm, Undefined, FALSE) :
        c \in {SavedForm, GridControl(Selection({})), GridControl(Selection({1}))}}

UnsetCustomFieldsArgs ==
    {a \in CustomFieldsArgs :
        /\ a.fieldNames = <<>>
        /\ a.primaryControl \in {SavedForm, GridControl(Selection({1}))}}

UnsetInit ==
    /\ _currentLanguage = "en"
    /\ pc = "idle"
    /\ fn = "none"
    /\ args = NoArgs
    /\ selectedRecords = <<>>
    /\ entityName = EmptyStr
    /\ flowUrl = Undefined
    /\ posts = <<>>
    /\ requests = <<>>
    /\ joined = FALSE
    /\ confirmed = "unresolved"
    /\ processedCount = 0
    /\ failedCount = 0
    /\ ui = <<>>
    /\ fmtTemplate = EmptyStr
    /\ fmtValues = JsUndef
    /\ fmtResult = Undefined
    /\ host \in HostSettings
    /\ activations = NoActivations

UnsetNext ==
    \/ pc = "idle" /\ \E a \in UnsetConfirmationArgs : callFlowWithConfirmation(a)
    \/ pc = "idle" /\ \E a \in UnsetCustomFieldsArgs : callFlowWithCustomFields(a)
    \/ \E r \in BOOLEAN : ConfirmDialogResolves(r)
    \/ \E m \in LookupErrors : LookupRejects(m)
    \/ \E m \in LookupErrors : CustomLookupRejects(m)
    \/ Return

UnsetSpec == UnsetInit /\ [][UnsetNext]_vars

\* The same page when the caller may also choose the language itself.
PageNext ==
    \/ UnsetNext
    \/ \E c \in LanguageCodes : setLanguage(c)
    \/ \E h \in Hosts : initializeLanguage(h)

PageSpec == UnsetInit /\ [][PageNext]_vars

\* ------------------------------------------------- overlapping invocations
\* A further specification: callFlowWithConfirmation is invoked again while
\* the requests of an earlier invocation are still in flight. Each call of
\* _processRecords has its own totalRecords, processedCount and failedCount
\* (var, lines 441-443); the callbacks it creates close over those.
pageVars == <<_currentLanguage, pc, fn, args, selectedRecords, entityName, flowUrl,
              posts, requests, joined, confirmed, processedCount, failedCount, ui,
              fmtTemplate, fmtValues, fmtResult, host>>

\* The activation whose processedCount and failedCount a callback created by
\* invocation k's _processRecords reads and writes.
ScopeShared(k) == 1
Scope(k) == k

\* callFlowWithConfirmation is invoked on a batch of n records; its
\* confirmation dialog and its lookup are pending.
InvocationStarts(k, n) ==
    /\ activations[k].phase = "none"
    /\ activations' = [activations EXCEPT ![k] = [NotCalled EXCEPT !.phase = "called",
                                                                  !.n = n]]
    /\ UNCHANGED pageVars

\* The lookup resolved: _processRecords runs, zeroes its counters and issues
\* one POST per record.
InvocationDispatches(k) ==
    /\ activations[k].phase = "called"
    /\ LET zeroed == [activations EXCEPT ![Scope(k)].processedCount = 0,
                                         ![Scope(k)].failedCount = 0]
       IN  activations' = [zeroed EXCEPT ![k].phase = "dispatch",
                                         ![k].requests = [i \in 1..activations[k].n |-> "pending"]]
    /\ UNCHANGED pageVars

\* One request's chain of invocation k settles.
InvocationRequestSettles(k, i, outcome) ==
    /\ activations[k].phase = "dispatch"
    /\ i \in DOMAIN activations[k].requests
    /\ activations[k].requests[i] = "pending"
    /\ LET settled == [activations EXCEPT ![k].requests[i] = outcome]
       IN  activations' =
               IF outcome = "ok"
               THEN [settled EXCEPT ![Scope(k)].processedCount = @ + 1]
               ELSE [settled EXCEPT ![Scope(k)].failedCount = @ + 1]
    /\ UNCHANGED pageVars

\* Promise.all(promises).then of invocation k: the summary text.
InvocationPromiseAllThen(k) ==
    /\ activations[k].phase = "dispatch"
    /\ \A i \in DOMAIN activations[k].requests : activations[k].requests[i] # "pending"
    /\ activations' =
           [activations EXCEPT ![k].phase = "summary",
                               ![k].message =
                                   SummaryMessage(_currentLanguage, Undefined,
                                                  activations[Scope(k)].processedCount,
                                                  activations[Scope(k)].failedCount)]
    /\ UNCHANGED pageVars

OverlapNext ==
    \/ \E k \in Invocations, n \in 1..MaxBatch : InvocationStarts(k, n)
    \/ \E k \in Invocations : InvocationDispatches(k)
    \/ \E k \in Invocations, i \in 1..MaxBatch, o \in Outcomes : InvocationRequestSettles(k, i, o)
    \/ \E k \in Invocations : InvocationPromiseAllThen(k)

OverlapSpec == Init /\ [][OverlapNext]_vars

\* ------------------------------------------------- _formatString on its own
\* A second specification: one call of _formatString on a template and a
\* values argument drawn from bounded sets.
MaxTemplate == 6

TemplatePieces == {"{", "}", "0", "1", "a"}
Templates == SeqsUpTo(TemplatePieces, MaxTemplate)

FormatValues ==
    {JsUndef, JsNum(7), JsStr(<<"x">>),
     JsArr(<<>>), JsArr(<< <<"x">> >>), JsArr(<< <<"x">>, <<"y">> >>),
     JsArr(<< Undefined, <<"y">> >>), JsArr(<< <<"{", "1", "}">>, <<"y">> >>)}

FormatInit ==
    /\ _currentLanguage = "en"
    /\ pc = "idle"
    /\ fn = "none"
    /\ args = NoArgs
    /\ selectedRecords = <<>>
    /\ entityName = EmptyStr
    /\ flowUrl = Undefined
    /\ posts = <<>>
    /\ requests = <<>>
    /\ joined = FALSE
    /\ confirmed = "unresolved"
    /\ processedCount = 0
    /\ failedCount = 0
    /\ ui = <<>>
    /\ fmtTemplate \in Templates
    /\ fmtValues \in FormatValues
    /\ fmtResult = Undefined
    /\ host = OpenHost
    /\ activations = NoActivations

\* return template.replace(/\{(\d+)\}/g, ...)
FormatStringReturns ==
    /\ fmtResult = Undefined
    /\ fmtResult' = _formatString(fmtTemplate, fmtValues)
    /\ UNCHANGED <<_currentLanguage, pc, fn, args, selectedRecords, entityName, flowUrl,
                   posts, requests, joined, confirmed, processedCount, failedCount, ui,
                   fmtTemplate, fmtValues, host, activations>>

FormatNext == FormatStringReturns

FormatSpec == FormatInit /\ [][FormatNext]_vars

\* ------------------------------------------------------------------ claims
WithConfirmation == fn = "callFlowWithConfirmation"
CustomFields     == fn = "callFlowWithCustomFields"

Called(op) == \E i \in DOMAIN ui : ui[i].op = op
Settled    == {i \in DOMAIN requests : requests[i] # "pending"}
With(o)    == {i \in DOMAIN requests : requests[i] = o}
BatchSize  == Len(selectedRecords)

\* C1: in both entry points no configuration lookup, no progress indicator and
\* no POST occurs unless the confirmation dialog has resolved with
\* confirmed = true; when it resolves with confirmed = false the invocation
\* has ended and the confirmation dialog is the only host call it ever made.
C1_ConfirmationGate ==
    /\ confirmed # "yes" =>
          /\ posts = <<>>
          /\ ~Called("retrieveMultipleRecords")
          /\ ~Called("showProgressIndicator")
          /\ ~Called("fetch")
    /\ confirmed = "no" =>
          /\ pc = "done"
          /\ Len(ui) = 1
          /\ ui[1].op = "openConfirmDialog"

C1_Cancelled == confirmed = "no" /\ CustomFields /\ pc = "done"

\* C2: in _processRecords the progress indicator is closed and the summary
\* dialog opened only when every one of the N requests of the batch has been
\* issued and has settled; no record is ever posted more than once.
SummaryShown == Called("closeProgressIndicator") \/ pc = "summary"

C2_FanInBarrier ==
    WithConfirmation =>
        /\ Len(posts) <= BatchSize
        /\ Len(requests) = Len(posts)
        /\ SummaryShown =>
              /\ Len(requests) = BatchSize
              /\ Settled = 1..BatchSize

C2_SummaryAfterFailure ==
    /\ WithConfirmation
    /\ pc = "summary"
    /\ BatchSize = 3
    /\ With("status") # {}
    /\ With("network") # {}
    /\ With("ok") # {}

\* C3: in every state of a batch of N records processedCount + failedCount is
\* the number of requests settled so far, at most N, and N once the summary
\* message has been built.
C3_CounterInvariant ==
    WithConfirmation =>
        /\ processedCount + failedCount = Cardinality(Settled)
        /\ processedCount + failedCount <= BatchSize
        /\ SummaryShown => processedCount + failedCount = BatchSize

C3_SummaryOfThree ==
    /\ WithConfirmation
    /\ pc = "summary"
    /\ processedCount = 2
    /\ failedCount = 1
    /\ With("network") # {}

\* C4: a request that settles changes exactly one counter, by one: a success
\* status increments processedCount only, a non-success status or a transport
\* failure increments failedCount only; and the counters of a batch under way
\* change in no other step.
SettlesNow(i) ==
    /\ i \in DOMAIN requests'
    /\ requests[i] = "pending"
    /\ requests'[i] # "pending"

C4_Step ==
    (WithConfirmation /\ pc = "dispatch") =>
        /\ \A i \in DOMAIN requests :
              SettlesNow(i) =>
                 /\ requests'[i] = "ok" =>
                       processedCount' = processedCount + 1 /\ failedCount' = failedCount
                 /\ requests'[i] \in {"status", "network"} =>
                       failedCount' = failedCount + 1 /\ processedCount' = processedCount
        /\ (processedCount' # processedCount \/ failedCount' # failedCount) =>
              Cardinality({i \in DOMAIN requests : SettlesNow(i)}) = 1

C4_OutcomeClassification == [][C4_Step]_vars

C4_EachOutcomeSeen ==
    /\ WithConfirmation
    /\ processedCount = 1
    /\ failedCount = 2
    /\ With("status") # {}
    /\ With("network") # {}

\* C5: for a batch of N records of which K succeed, the summary text is the
\* success template (the caller's successMessage when supplied, otherwise the
\* default template of the current language) with K substituted, followed, if
\* and only if N - K > 0, by a line break and the failure template with N - K.
Substituted(template, k) == _formatString(template, JsArr(<<NumStr(k)>>))

SuccessTemplate ==
    IF Truthy(args.successMessage) THEN args.successMessage
    ELSE LOCALIZED_STRINGS[_currentLanguage].defaultSuccessMessage

ExpectedSummary(k, f) ==
    Substituted(SuccessTemplate, k) \o
    (IF f > 0
     THEN <<"\n">> \o Substituted(LOCALIZED_STRINGS[_currentLanguage].recordsFailed, f)
     ELSE <<>>)

C5_SummaryContent ==
    (WithConfirmation /\ pc = "summary") =>
        LET k == Cardinality(With("ok")) IN
        ui[Len(ui)].text = ExpectedSummary(k, BatchSize - k)

\* C6: a confirmed invocation of callFlowWithConfirmation whose endpoint
\* resolves issues exactly N POSTs, all to the resolved URL, one per record of
\* the batch, N being the count substituted into the confirmation text.
C6_OnePostPerRecord ==
    (WithConfirmation /\ confirmed = "yes" /\ Truthy(flowUrl)) =>
        /\ Len(posts) = BatchSize
        /\ \A i \in DOMAIN posts : posts[i].url = flowUrl
        /\ ui[1].text = ReplaceFirst(args.confirmationText, Placeholder0,
                                     NumStr(Len(posts)))

\* C7: every POST body of _processRecords has id equal to the identifier of its
\* record with every brace removed and entityName equal to the one type name
\* of the batch, in each of the three caller contexts.
FirstPresent(a, b, c) == IF Truthy(a) THEN a ELSE IF Truthy(b) THEN b ELSE c

RECURSIVE Unbraced(_)
Unbraced(str) ==
    IF str = <<>> THEN <<>>
    ELSE (IF Head(str) \in {"{", "}"} THEN <<>> ELSE <<Head(str)>>) \o Unbraced(Tail(str))

\* The identifier of the i-th record of the batch, as the caller supplied it.
SourceId(i) ==
    LET refs == args.selectedItemReferences
        c == args.primaryControl
    IN  IF Len(refs) > 0 THEN FirstPresent(refs[i].Id, refs[i].id, refs[i].getId)
        ELSE IF c.getGrid THEN c.rows[i].id
        ELSE c.entityId

\* The type name of the batch, as the caller supplied it.
SourceType ==
    LET refs == args.selectedItemReferences
        c == args.primaryControl
    IN  IF Len(refs) > 0
        THEN FirstPresent(refs[1].TypeName, refs[1].etn, refs[1].entityType)
        ELSE IF c.getGrid THEN c.rows[1].type
        ELSE c.entityType

C7_PayloadShape ==
    WithConfirmation =>
        \A i \in DOMAIN posts :
            /\ Field(posts[i].body, "id") = Unbraced(SourceId(i))
            /\ Field(posts[i].body, "entityName") = SourceType
            /\ DOMAIN posts[i].body \subseteq {"id", "entityName"}

C7_BracedIdsPosted ==
    /\ WithConfirmation
    /\ Len(args.selectedItemReferences) = 2
    /\ Len(posts) = 2
    /\ SourceId(1) # Unbraced(SourceId(1))
    /\ args.selectedItemReferences[2].etn # Undefined
    /\ Field(posts[2].body, "entityName") = <<"account">>

\* C8: every dispatched record carries a non-empty identifier and a non-empty
\* type name in its POST payload.
C8_NonEmptyPayload ==
    WithConfirmation =>
        \A i \in DOMAIN posts :
            /\ Truthy(Field(posts[i].body, "id"))
            /\ Truthy(Field(posts[i].body, "entityName"))

\* C9: the batch is picked by the first condition that holds: a non-empty
\* explicit list, whatever the control; otherwise the selected rows of a
\* control that exposes getGrid, in selection order; otherwise the bound record
\* of a control that exposes data.entity; otherwise the invocation aborts.
NoSelectionAlert ==
    /\ pc = "done"
    /\ ui = <<Alert(LOCALIZED_STRINGS[_currentLanguage].noRecordsSelected, NoTitle)>>
ConfirmationAsked == ui # <<>> /\ ui[1].op = "openConfirmDialog"

C9_ResolutionPriority ==
    WithConfirmation =>
        LET refs == args.selectedItemReferences
            c == args.primaryControl
        IN  CASE Len(refs) > 0 ->
                   /\ selectedRecords = refs
                   /\ ConfirmationAsked
              [] Len(refs) = 0 /\ c.getGrid ->
                   /\ Len(selectedRecords) = Len(c.rows)
                   /\ \A i \in DOMAIN selectedRecords :
                         /\ selectedRecords[i].Id = c.rows[i].id
                         /\ selectedRecords[i].TypeName = c.rows[i].type
                   /\ IF Len(c.rows) = 0 THEN NoSelectionAlert ELSE ConfirmationAsked
              [] Len(refs) = 0 /\ ~c.getGrid /\ c.hasEntity ->
                   /\ Len(selectedRecords) = 1
                   /\ selectedRecords[1].Id = Unbraced(c.entityId)
                   /\ selectedRecords[1].TypeName = c.entityType
                   /\ ConfirmationAsked
              [] OTHER ->
                   /\ selectedRecords = <<>>
                   /\ NoSelectionAlert

C9_ListBeatsGrid ==
    /\ WithConfirmation
    /\ Len(args.selectedItemReferences) = 2
    /\ args.primaryControl.getGrid
    /\ Len(args.primaryControl.rows) = 1
    /\ Len(posts) = 2

\* C10: for a non-empty explicit list the type name of the whole batch is the
\* first entry's type-name field under the first of TypeName, etn, entityType
\* that is present.
C10_TypeNameOfFirstEntry ==
    (WithConfirmation /\ Len(args.selectedItemReferences) > 0) =>
        LET first == args.selectedItemReferences[1]
            type == FirstPresent(first.TypeName, first.etn, first.entityType)
        IN  /\ entityName = type
            /\ \A i \in DOMAIN posts : Field(posts[i].body, "entityName") = type

C10_SecondAliasUsed ==
    /\ WithConfirmation
    /\ Len(args.selectedItemReferences) = 2
    /\ args.selectedItemReferences[1].TypeName = Undefined
    /\ args.selectedItemReferences[1].etn = <<"contact">>
    /\ args.selectedItemReferences[1].entityType = <<"lead">>
    /\ Len(posts) = 2
    /\ entityName = <<"contact">>

\* C11: when callFlowWithConfirmation is given no explicit references and
\* either the grid selection is empty or the control exposes neither a grid
\* nor a bound record, the "no records selected" alert is shown exactly once
\* and the invocation has ended: no confirmation dialog, no configuration
\* lookup and no POST occurs.
NothingToProcess ==
    /\ WithConfirmation
    /\ Len(args.selectedItemReferences) = 0
    /\ \/ args.primaryControl.getGrid /\ Len(args.primaryControl.rows) = 0
       \/ ~args.primaryControl.getGrid /\ ~args.primaryControl.hasEntity

C11_EmptyBatchAbort ==
    NothingToProcess =>
        /\ pc = "done"
        /\ Len(ui) = 1
        /\ ui[1] = Alert(LOCALIZED_STRINGS[_currentLanguage].noRecordsSelected, NoTitle)
        /\ confirmed = "unresolved"
        /\ posts = <<>>
        /\ requests = <<>>
        /\ ~Called("openConfirmDialog")
        /\ ~Called("retrieveMultipleRecords")
        /\ ~Called("fetch")

C11_EmptyGridSelection ==
    /\ NothingToProcess
    /\ args.primaryControl.getGrid
    /\ pc = "done"
    /\ Len(ui) = 1
    /\ _currentLanguage = "da"

\* The step in which the lookup's then-callback ran on the entities the store
\* answered with, in either entry point.
LookupAnswered(entities) == LookupResolves(entities) \/ CustomLookupResolves(entities)

\* The alert a caller shows when the lookup's promise rejected with `message`.
LookupFailureText(message) ==
    _getString(_currentLanguage,
               IF WithConfirmation THEN "envVarRetrievalFailed"
               ELSE "errorWhenRetrievingVariable",
               JsStr(message))

RejectedNotFound ==
    /\ pc' = "done"
    /\ flowUrl' = flowUrl
    /\ ui'[Len(ui')].op = "openAlertDialog"
    /\ ui'[Len(ui')].text = LookupFailureText(NotFoundMessage(args.envVarName))

OverrideOrDefault(entities) ==
    /\ (Len(entities) > 0 /\ Truthy(entities[1].value)) =>
           flowUrl' = entities[1].value
    /\ (Len(entities) > 0 /\ ~Truthy(entities[1].value)
                          /\ Truthy(entities[1].defaultvalue)) =>
           flowUrl' = entities[1].defaultvalue

\* C12 (as stated): _getEnvironmentVariable returns the override value when
\* both override and default are present, the default when only the default
\* is present, and fails with "not found" when neither exists.
C12_LookupFailsWhenNeitherExists ==
    [][\A entities \in LookupResults :
          LookupAnswered(entities) =>
              /\ OverrideOrDefault(entities)
              /\ (Len(entities) = 0 \/ (~Truthy(entities[1].value)
                                        /\ ~Truthy(entities[1].defaultvalue))) =>
                     RejectedNotFound]_vars

\* C12 (amended): _getEnvironmentVariable resolves with the override value
\* when the override is non-empty, with the default when the override is
\* missing or empty and the default is non-empty, and rejects with
\* "Environment variable not found: <name>" only when no definition matches
\* the name; a definition that has neither a non-empty override nor a
\* non-empty default makes it resolve with that empty default, not fail.
C12_LookupResult ==
    [][\A entities \in LookupResults :
          LookupAnswered(entities) =>
              /\ OverrideOrDefault(entities)
              /\ Len(entities) = 0 => RejectedNotFound
              /\ (Len(entities) > 0 /\ ~Truthy(entities[1].value)
                                    /\ ~Truthy(entities[1].defaultvalue)) =>
                     /\ flowUrl' = entities[1].defaultvalue
                     /\ ui'[Len(ui')].text # LookupFailureText(NotFoundMessage(args.envVarName))
                     /\ pc' = "done"]_vars

C12_ResolvedWithEmptyDefault ==
    /\ WithConfirmation
    /\ pc = "done"
    /\ flowUrl = EmptyStr
    /\ ui[Len(ui)] = Alert(_getString(_currentLanguage, "envVarNotFound",
                                      JsStr(args.envVarName)), NoTitle)
    /\ posts = <<>>

\* The lookup of the confirmed invocation has failed: its promise rejected
\* (flowUrl still undefined) or resolved with a value that is not a usable URL.
LookupFailed == confirmed = "yes" /\ pc # "lookup" /\ ~Truthy(flowUrl)

LookupFailureTemplates ==
    IF WithConfirmation THEN {"envVarRetrievalFailed", "envVarNotFound"}
    ELSE {"errorWhenRetrievingVariable", "flowUrlNotFound"}

LookupFailureCauses ==
    {args.envVarName, NotFoundMessage(args.envVarName)} \cup LookupErrors

CauseInterpolated(text) ==
    \E key \in LookupFailureTemplates, cause \in LookupFailureCauses :
        text = _formatString(LOCALIZED_STRINGS[_currentLanguage][key], JsStr(cause))

LookupFailureSurfacedOnce ==
    /\ pc = "done"
    /\ Len(ui) = 3
    /\ ui[1].op = "openConfirmDialog"
    /\ ui[2].op = "retrieveMultipleRecords"
    /\ ui[3].op = "openAlertDialog"
    /\ CauseInterpolated(ui[3].text)
    /\ posts = <<>>
    /\ requests = <<>>

\* C13: in callFlowWithConfirmation and callFlowWithCustomFields, when the
\* configuration lookup fails (no definition, transport error) or yields no
\* usable URL, the failure is surfaced exactly once as a titled alert with the
\* underlying cause (error text or variable name) interpolated, and no
\* progress indicator, POST, summary dialog or refresh follows.
C13_LookupFailureTitledAlert ==
    LookupFailed =>
        /\ LookupFailureSurfacedOnce
        /\ ui[3].title # NoTitle

\* Positions in the host-call log.
CallsOf(op) == {i \in DOMAIN ui : ui[i].op = op}

SummaryDialogs ==
    {i \in DOMAIN ui :
        /\ ui[i].op = "openAlertDialog"
        /\ ui[i].title = LOCALIZED_STRINGS[_currentLanguage].completed}

SummaryAcknowledgedNow == SummaryDialogs # {} /\ pc = "done"

\* C14: after a batch a refresh is triggered only once the user has
\* acknowledged the summary dialog, and then exactly one of the two happens:
\* a grid refresh when the control is a list (grid) control, never a form
\* refresh; a form data refresh otherwise, never a grid refresh.
C14_RefreshRouting ==
    WithConfirmation =>
        LET grid == CallsOf("grid.refresh")
            form == CallsOf("data.refresh")
        IN  /\ (grid \cup form) # {} =>
                  /\ SummaryAcknowledgedNow
                  /\ \A r \in grid \cup form : \A s \in SummaryDialogs : s < r
            /\ SummaryAcknowledgedNow =>
                  IF args.primaryControl.getGrid
                  THEN Cardinality(grid) = 1 /\ form = {}
                  ELSE Cardinality(form) = 1 /\ grid = {}

\* C15: once the summary is acknowledged, the Timeline refresh is attempted
\* if and only if the control is a form context (no getGrid) and
\* refreshTimeline is true; if that refresh throws, the failure is swallowed
\* (logged as a warning, no dialog) and the form data refresh is still
\* performed.
C15_TimelineRefresh ==
    WithConfirmation =>
        LET attempts == CallsOf("getControl")
            warnings == CallsOf("console.warn")
        IN  /\ attempts # {} => SummaryAcknowledgedNow
            /\ SummaryAcknowledgedNow =>
                  /\ Cardinality(attempts) =
                        (IF ~args.primaryControl.getGrid /\ args.refreshTimeline
                         THEN 1 ELSE 0)
                  /\ warnings \cup CallsOf("Timeline.refresh") # {} => attempts # {}
                  /\ \A w \in warnings :
                        /\ ui[w].text = LOCALIZED_STRINGS[_currentLanguage].timelineRefreshWarning
                        /\ \A i \in DOMAIN ui :
                              ui[i].op = "openAlertDialog" => i < w
                        /\ \E r \in CallsOf("data.refresh") : r > w

\* C16: for both entry points, under every combination of outcomes of the
\* confirmation dialog, the configuration lookup, each POST, the result dialog
\* and the refresh calls, no exception and no promise rejection is left
\* unhandled: nothing is thrown to the caller and no chain ends in a
\* rejection that no handler receives.
C16_NoUnhandledFault ==
    /\ ~Called("unhandledRejection")
    /\ ~Called("throw")

\* C17: callFlowWithCustomFields rejects a list (grid) control outright: when
\* primaryControl exposes getGrid, exactly one "not supported" alert is shown
\* and no confirmation dialog, configuration lookup or POST occurs.
C17_GridRejected ==
    (CustomFields /\ args.primaryControl.getGrid) =>
        /\ pc = "done"
        /\ ui = <<Alert(LOCALIZED_STRINGS[_currentLanguage].onlySingleRecord,
                        LOCALIZED_STRINGS[_currentLanguage].notSupported)>>
        /\ confirmed = "unresolved"
        /\ flowUrl = Undefined
        /\ posts = <<>>
        /\ requests = <<>>

C17_GridWithSelectedRow ==
    /\ CustomFields
    /\ args.primaryControl.getGrid
    /\ Len(args.primaryControl.rows) = 1
    /\ args.fieldNames # <<>>
    /\ Len(ui) = 1
    /\ ui[1].title = <<"Nicht unterstützt">>

\* The host calls a step appended to the log, and the dialogs among them.
Appended == SubSeq(ui', Len(ui) + 1, Len(ui'))
DialogsIn(log) ==
    {i \in DOMAIN log : log[i].op \in {"openAlertDialog", "openConfirmDialog"}}

OutcomeDialog(key, title) ==
    Alert(LOCALIZED_STRINGS[_currentLanguage][key], LOCALIZED_STRINGS[_currentLanguage][title])

ErrorDialog(message) ==
    Alert(_formatString(LOCALIZED_STRINGS[_currentLanguage].errorWhenCallingFlow,
                        JsStr(message)),
          LOCALIZED_STRINGS[_currentLanguage].error)

ExpectedOutcome(outcome) ==
    LET shown == {Appended[i] : i \in DialogsIn(Appended)}
        logged == {Appended[i].text : i \in {j \in DOMAIN Appended :
                                                  Appended[j].op = "console.error"}}
    IN  /\ Cardinality(DialogsIn(Appended)) = 1
        /\ CASE outcome = "json" ->
                  /\ shown = {OutcomeDialog("flowCompletedSuccessfully", "success")}
                  /\ logged = {}
                  /\ pc' = "customResult"
             [] outcome = "nojson" ->
                  /\ shown = {OutcomeDialog("flowStartedSuccessfully", "success")}
                  /\ logged = {}
                  /\ pc' = "done"
             [] outcome = "status" ->
                  /\ shown = {ErrorDialog(<<"HTTP ", "5", "0", "0">>)}
                  /\ logged = {<<"HTTP ", "5", "0", "0">>}
                  /\ pc' = "done"
             [] OTHER ->
                  /\ shown = {ErrorDialog(TransportMessage)}
                  /\ logged = {TransportMessage}
                  /\ pc' = "done"

\* C18: in callFlowWithCustomFields each dispatched request ends in exactly
\* one outcome dialog: "flow completed" for a success status with a parseable
\* body, followed by a form data refresh once that dialog is acknowledged;
\* "flow started" for a success status with an unparseable or absent body; an
\* error dialog carrying the HTTP status or the transport error text, which
\* is also logged, for a non-success status or a transport failure.  No other
\* dialog follows the request, and the form is refreshed in no other case.
C18_CustomFieldsOutcome ==
    [][/\ \A outcome \in CustomOutcomes : CustomResponse(outcome) => ExpectedOutcome(outcome)
       /\ (CustomFields /\ pc \in {"customResult", "done"} /\ pc' # "idle") =>
              /\ DialogsIn(Appended) = {}
              /\ pc' = "done"
              /\ IF pc = "customResult"
                 THEN /\ ui[Len(ui)] = OutcomeDialog("flowCompletedSuccessfully", "success")
                      /\ Appended = <<UI("data.refresh", EmptyStr, NoTitle)>>
                 ELSE Appended = <<>>
       /\ (CustomFields /\ pc # "customResult") =>
              \A i \in DOMAIN Appended : Appended[i].op # "data.refresh"]_vars

C18_CompletedAndRefreshed ==
    /\ CustomFields
    /\ pc = "done"
    /\ requests = <<"ok">>
    /\ Len(ui) = 7
    /\ ui[6] = OutcomeDialog("flowCompletedSuccessfully", "success")
    /\ ui[7].op = "data.refresh"

\* The names of fieldNames the form has an attribute for.
FieldsOnForm == {args.fieldNames[i] : i \in DOMAIN args.fieldNames} \cap DOMAIN FormAttributes

\* C19: a confirmed callFlowWithCustomFields whose endpoint resolves issues
\* exactly one POST, to that endpoint; its payload holds id, entityName and,
\* for each name in fieldNames, that field's current value if and only if
\* the form has an attribute of that name (a name with no attribute is left
\* out).  Without confirmation or without an endpoint nothing is posted.
C19_CustomFieldsDispatch ==
    CustomFields =>
        IF confirmed = "yes" /\ Truthy(flowUrl)
        THEN /\ Len(posts) = 1
             /\ Cardinality(CallsOf("fetch")) = 1
             /\ posts[1].url = flowUrl
             /\ LET body == posts[1].body IN
                /\ DOMAIN body = {"id", "entityName"} \cup FieldsOnForm
                /\ body.entityName = args.primaryControl.entityType
                /\ "id" \notin FieldsOnForm => body.id = Unbraced(args.primaryControl.entityId)
                /\ \A name \in FieldsOnForm : body[name] = FormAttributes[name]
        ELSE /\ posts = <<>>
             /\ CallsOf("fetch") = {}

C19_FieldWithoutAttributeOmitted ==
    /\ CustomFields
    /\ args.fieldNames = <<"name", "missing">>
    /\ Len(posts) = 1
    /\ DOMAIN posts[1].body = {"id", "entityName", "name"}
    /\ posts[1].body.name = <<"Contoso">>
    /\ posts[1].body.id = <<"f">>

\* The positional values a call supplies: the array's elements, or the single
\* non-array argument as position 0; Undefined marks a position with no value.
Given(values) ==
    CASE values.t = "array" -> values.a
      [] values.t = "number" -> <<NumStr(values.n)>>
      [] values.t = "string" -> <<values.s>>
      [] OTHER -> <<Undefined>>

\* t[i..j] is a placeholder: "{", one or more digits, "}".
IsPlaceholder(t, i, j) ==
    /\ i \in DOMAIN t /\ j \in DOMAIN t
    /\ j > i + 1
    /\ t[i] = "{" /\ t[j] = "}"
    /\ \A k \in (i + 1)..(j - 1) : IsDigit(t[k])

\* The placeholder t[i..j] is {n} for a position n whose value is supplied.
SuppliedAt(t, i, j, given, n) ==
    /\ IsPlaceholder(t, i, j)
    /\ n \in 0..(Len(given) - 1)
    /\ SubSeq(t, i + 1, j - 1) = NumStr(n)
    /\ given[n + 1] # Undefined

\* What position k of the template contributes to the output.
OutputOf(t, k, given) ==
    IF \E j \in DOMAIN t, n \in 0..(Len(given) - 1) : SuppliedAt(t, k, j, given, n)
    THEN LET n == CHOOSE m \in 0..(Len(given) - 1) :
                      \E j \in DOMAIN t : SuppliedAt(t, k, j, given, m)
         IN  given[n + 1]
    ELSE IF \E i \in 1..(k - 1), j \in k..Len(t), n \in 0..(Len(given) - 1) :
                SuppliedAt(t, i, j, given, n)
    THEN <<>>
    ELSE <<t[k]>>

RECURSIVE Flatten(_)
Flatten(parts) == IF parts = <<>> THEN <<>> ELSE Head(parts) \o Flatten(Tail(parts))

ExpectedFormat(t, values) ==
    Flatten([k \in 1..Len(t) |-> OutputOf(t, k, Given(values))])

\* C20: _formatString replaces every placeholder {i} (i written as a decimal
\* numeral) whose positional value is supplied with that value and leaves every placeholder whose position
\* has no supplied value, and all other text, as it is; in particular a
\* template with {0} and {1} formatted with one value keeps {1} literally.
C20_PlaceholderSubstitution ==
    fmtResult # Undefined =>
        /\ fmtResult = ExpectedFormat(fmtTemplate, fmtValues)
        /\ (fmtTemplate = <<"{", "0", "}", "{", "1", "}">> /\ fmtValues = JsStr(<<"x">>)) =>
               fmtResult = <<"x", "{", "1", "}">>

C20_SecondPlaceholderKept ==
    /\ fmtTemplate = <<"{", "0", "}", "{", "1", "}">>
    /\ fmtValues = JsArr(<< <<"x">> >>)
    /\ fmtResult = <<"x", "{", "1", "}">>

SupportedLanguages == {"en", "da", "de"}

MessageKeys == DOMAIN LOCALIZED_STRINGS["en"]

\* C21: setLanguage(c) makes c the current language when c is one of the
\* supported codes (en, da, de) and makes English current otherwise; after
\* any sequence of setLanguage and initializeLanguage calls the current
\* language is one of en, da, de, so every message key resolves to a string
\* of a compiled-in table.
C21_LanguageSelection ==
    /\ [](/\ _currentLanguage \in SupportedLanguages
          /\ \A key \in MessageKeys :
                /\ key \in DOMAIN LOCALIZED_STRINGS[_currentLanguage]
                /\ _getString(_currentLanguage, key, JsUndef) =
                       LOCALIZED_STRINGS[_currentLanguage][key]
                /\ _getString(_currentLanguage, key, JsUndef) # <<key>>)
    /\ [][\A c \in LanguageCodes :
             setLanguage(c) =>
                 _currentLanguage' = (IF c \in SupportedLanguages THEN c ELSE "en")]_vars

C21_GermanSelected ==
    /\ _currentLanguage = "de"
    /\ pc = "idle"
    /\ _getString(_currentLanguage, "completed", JsUndef) = <<"Abgeschlossen">>

\* The language the library's own detection finds on this page.
Detected == initializeLanguageResult(host)

\* C22: when callFlowWithConfirmation or callFlowWithCustomFields is invoked
\* and the caller has not set a language, the library detects the user's
\* language (user LCID first, browser language as fallback) and shows its
\* dialogs in that language.
C22_AutomaticDetection ==
    fn # "none" =>
        /\ _currentLanguage = Detected
        /\ \A i \in DOMAIN ui :
              /\ ui[i].op = "openConfirmDialog" =>
                     ui[i].title = LOCALIZED_STRINGS[Detected].confirmTitle
              /\ (ui[i].op = "openAlertDialog" /\ ui[i].title # NoTitle) =>
                     ui[i].title \in {LOCALIZED_STRINGS[Detected].error,
                                      LOCALIZED_STRINGS[Detected].notSupported}
              /\ (ui[i].op = "openAlertDialog" /\ i = 1 /\ WithConfirmation) =>
                     ui[i].text = LOCALIZED_STRINGS[Detected].noRecordsSelected

\* callFlowWithConfirmation(primaryControl, null, "aba_DefaultFlowUrl",
\* "Do you want to run this action?", null, false), written out.
DefaultInvocation(c) ==
    [primaryControl |-> c,
     selectedItemReferences |-> <<>>,
     envVarName |-> <<"aba_DefaultFlowUrl">>,
     confirmationText |-> <<"Do you want to run this action?">>,
     successMessage |-> Undefined,
     refreshTimeline |-> FALSE,
     fieldNames |-> <<>>]

ByCallFlow == WithConfirmation /\ args = DefaultInvocation(args.primaryControl)

Failed == With("status") \cup With("network")

\* C24: for a fixed batch and fixed per-request outcomes the counters and the
\* summary text depend on the outcomes only, not on the order in which the
\* responses arrive or their callbacks run: at every moment processedCount
\* and failedCount are the numbers of settled requests of each kind (no
\* update is lost), and the summary is the text for those two numbers.
C24_OrderIndependence ==
    (WithConfirmation /\ posts # <<>>) =>
        /\ processedCount = Cardinality(With("ok"))
        /\ failedCount = Cardinality(Failed)
        /\ \A i \in SummaryDialogs :
              /\ AllSettled
              /\ ui[i].text = SummaryMessage(_currentLanguage, args.successMessage,
                                             Cardinality(With("ok")), Cardinality(Failed))

C24_LastResponseFirst ==
    /\ WithConfirmation
    /\ requests = <<"pending", "status", "ok">>
    /\ processedCount = 1
    /\ failedCount = 1

DispatchStarted == WithConfirmation /\ Called("showProgressIndicator")

\* C25: once _processRecords has started, if every POST eventually settles
\* then the summary dialog is eventually opened, and it is opened exactly
\* once per invocation; no request outcome prevents or duplicates it.
C25_DispatchCompletes ==
    /\ DispatchStarted ~> (SummaryDialogs # {})
    /\ [](Cardinality(SummaryDialogs) <= 1)

\* The first two letters of the browser language.
BrowserCode == host.browser[1]

\* C26: initializeLanguage makes current the code mapped from the user's
\* LCID when that LCID designates a supported language (1033 en, 1030 da,
\* 1031 de); for any other LCID, or when no host context is available, the
\* first two letters of the browser language if that is a supported code,
\* and English otherwise.
C26_InitializeLanguageResult ==
    [][initializeLanguage(host) =>
          _currentLanguage' =
              (CASE host.hasXrm /\ host.lcid = 1033 -> "en"
                 [] host.hasXrm /\ host.lcid = 1030 -> "da"
                 [] host.hasXrm /\ host.lcid = 1031 -> "de"
                 [] OTHER -> IF BrowserCode \in SupportedLanguages
                             THEN BrowserCode ELSE "en")]_vars

\* The URL the store's answer holds for this lookup, if any.
Answered(entities) ==
    IF Len(entities) = 0 THEN Undefined
    ELSE IF Truthy(entities[1].value) THEN entities[1].value
    ELSE entities[1].defaultvalue

\* C27: every confirmed invocation issues exactly one configuration lookup,
\* for its own variable name, and dispatches to the value that lookup
\* returned; an invocation starts with no URL, so nothing obtained by an
\* earlier invocation is retained or reused, and whatever the store answers
\* to this invocation's lookup is what its POSTs go to.
C27_NoConfigurationCaching ==
    /\ [](/\ pc \in {"idle", "confirm", "lookup"} => (flowUrl = Undefined /\ posts = <<>>)
          /\ Cardinality(CallsOf("retrieveMultipleRecords")) =
                (IF confirmed = "yes" THEN 1 ELSE 0)
          /\ \A i \in CallsOf("retrieveMultipleRecords") : ui[i].text = args.envVarName
          /\ \A i \in DOMAIN posts : posts[i].url = flowUrl)
    /\ [][\A entities \in LookupResults :
             LookupAnswered(entities) =>
                 IF Truthy(Answered(entities))
                 THEN /\ flowUrl' = Answered(entities)
                      /\ \A i \in DOMAIN posts' : posts'[i].url = Answered(entities)
                 ELSE posts' = <<>>]_vars

C27_DispatchedToDefault ==
    /\ WithConfirmation
    /\ flowUrl = Url2
    /\ Len(posts) = 2
    /\ \A i \in DOMAIN posts : posts[i].url = Url2
    /\ Cardinality(CallsOf("retrieveMultipleRecords")) = 1

\* C28: in _processRecords and in callFlowWithCustomFields every
\* showProgressIndicator is followed by exactly one closeProgressIndicator,
\* and that close comes before the outcome dialog is opened, on every path
\* after the indicator is shown: never a second close, never a dialog while
\* the indicator is still up.
C28_ProgressIndicatorPairing ==
    \A s \in CallsOf("showProgressIndicator") :
        /\ Cardinality({c \in CallsOf("closeProgressIndicator") : c > s}) <= 1
        /\ \A d \in DialogsIn(ui) :
              d > s => \E c \in CallsOf("closeProgressIndicator") : s < c /\ c < d

\* The requests of invocation k that have settled with one of `outcomes`.
SettledOf(k, outcomes) ==
    {i \in DOMAIN activations[k].requests : activations[k].requests[i] \in outcomes}

\* C29: when a second invocation of callFlowWithConfirmation starts while the
\* requests of a first one are in flight, each invocation's counters and
\* summary reflect its own batch only, under every interleaving of the
\* responses: at every moment invocation k's counters are the numbers of its
\* own settled requests, and at its summary K + F = N with the text built
\* from those two numbers.
C29_InvocationsIsolated ==
    \A k \in Invocations :
        /\ activations[k].phase \in {"dispatch", "summary"} =>
              /\ activations[k].processedCount = Cardinality(SettledOf(k, {"ok"}))
              /\ activations[k].failedCount =
                     Cardinality(SettledOf(k, {"status", "network"}))
        /\ activations[k].phase = "summary" =>
              /\ activations[k].processedCount + activations[k].failedCount =
                     activations[k].n
              /\ activations[k].message =
                     SummaryMessage(_currentLanguage, Undefined,
                                    Cardinality(SettledOf(k, {"ok"})),
                                    Cardinality(SettledOf(k, {"status", "network"})))

C29_SecondSummarisedFirstInFlight ==
    /\ activations[1].phase = "dispatch"
    /\ activations[1].requests = <<"ok", "pending">>
    /\ activations[2].phase = "summary"
    /\ activations[2].requests = <<"network", "status">>
    /\ activations[2].failedCount = 2
    /\ activations[1].processedCount = 1

\* C30: in callFlowWithCustomFields the id and entityName of the POST payload
\* always equal the bound record's identifier with its braces removed and its
\* entity name, whatever names fieldNames contains: no entry of fieldNames
\* replaces them.
C30_PayloadIdentityKept ==
    CustomFields =>
        \A i \in DOMAIN posts :
            /\ posts[i].body.id = Unbraced(args.primaryControl.entityId)
            /\ posts[i].body.entityName = args.primaryControl.entityType

====
